---- MODULE Spec2Model ----
(***************************************************************************)
(* Model of src/src/diagram_generator.py: the code patcher                 *)
(* (DiagramGenerator._prepare_code) and the subprocess executor            *)
(* (DiagramGenerator.generate_diagram).                                    *)
(*                                                                         *)
(* Text is a sequence of tokens (TLA+ strings).  A token stands for the    *)
(* characters it spells; the tokens are cut so that every substring test   *)
(* of the code is a test on whole tokens: 'Diagram(' is one token, 'name=' *)
(* is one token and 'filename=' is the two tokens "file", "name=" (so that *)
(* 'name=' in line is true of a line holding filename=, as in Python).     *)
(***************************************************************************)
EXTENDS Naturals, Sequences, FiniteSets

VARIABLES
    pc,               \* position of the caller: inside generate_diagram, or after clear_outputs
    diagram_code,     \* argument diagram_code of the running call
    output_filename,  \* argument output_filename of the running call
    modified_code,    \* local modified_code (text written to the temp file)
    temp_file_path,   \* local temp_file_path (0: not assigned)
    temps,            \* temporary source files present in output_dir
    pngs,             \* base names f such that output_dir/f.png is on disk
    child,            \* the child process: "none", "running", "exited", "killed"
    launched,         \* child processes launched by the running call
    returncode,       \* result.returncode
    stdout,           \* result.stdout (captured text)
    stderr,           \* result.stderr (captured text)
    exc,              \* exception raised inside the try block (NoExc: none)
    unlinked,         \* os.unlink(temp_file_path) was reached and did not raise
    checked,          \* output_path.exists() was evaluated by the running call
    result,           \* what the last call gave its caller
    calls,            \* number of calls of generate_diagram started
    locked,           \* base names f whose output_dir/f.png cannot be unlinked
    origin,           \* origin[f]: the run that last wrote f.png (0: an earlier process)
    badRuns,          \* runs that timed out or exited with a non-zero code
    other_pc,         \* position of a second, overlapping call of generate_diagram
    other_fn,         \* its argument output_filename
    other_temp,       \* its temp_file_path (0: not assigned)
    other_result,     \* what it gave its caller
    api_key_verified, \* st.session_state.api_key_verified
    generated_diagram,\* st.session_state.generated_diagram (0: None, else the run of main that set it)
    diagram_response, \* st.session_state.diagram_response (0: None, else the run of main that set it)
    ui_runs,          \* runs of main() (Streamlit reruns the script on every interaction)
    ui_input,         \* widget values of the last run of main()
    ui_llm_calls,     \* executions of line 258 (the LLM Client call) in the last run
    ui_gen_calls,     \* calls of generate_diagram (line 272) in the last run
    ui_outcome        \* how the last run of main() ended

\* the variables of generate_diagram and of the output directory
genVars == <<pc, diagram_code, output_filename, modified_code, temp_file_path,
             temps, pngs, child, launched, returncode, stdout, stderr, exc,
             unlinked, checked, result, calls>>

\* the variables of the overlapping call
otherVars == <<other_pc, other_fn, other_temp, other_result>>

\* the variables of the Streamlit session
uiVars == <<api_key_verified, generated_diagram, diagram_response, ui_runs,
            ui_input, ui_llm_calls, ui_gen_calls, ui_outcome>>

vars == <<genVars, locked, origin, badRuns, otherVars, uiVars>>

----------------------------------------------------------------------------
(* Bounds of the model *)

\* lines per input text of the patcher
MaxLines == 2
\* calls of generate_diagram in one behaviour
MaxCalls == 2

\* runs of the page script (one per user interaction) in a session
MaxRuns == 2

----------------------------------------------------------------------------
(* Python str operations on token sequences *)

\* str.isspace for one token
IsSpace(t) == t \in {" ", "\n"}

RECURSIVE lstrip(_)
lstrip(s) == IF s # <<>> /\ IsSpace(Head(s)) THEN lstrip(Tail(s)) ELSE s

RECURSIVE rstrip(_)
rstrip(s) ==
    IF s # <<>> /\ IsSpace(s[Len(s)]) THEN rstrip(SubSeq(s, 1, Len(s) - 1)) ELSE s

\* str.strip()
strip(s) == rstrip(lstrip(s))

\* sub in s
Contains(sub, s) ==
    \E i \in 1..(Len(s) + 1 - Len(sub)) : SubSeq(s, i, i + Len(sub) - 1) = sub

\* s.endswith(suf)
endswith(s, suf) ==
    /\ Len(suf) <= Len(s)
    /\ SubSeq(s, Len(s) - Len(suf) + 1, Len(s)) = suf

\* s.split('\n'): always at least one (possibly empty) piece
RECURSIVE splitAcc(_, _, _)
splitAcc(s, cur, acc) ==
    IF s = <<>> THEN Append(acc, cur)
    ELSE IF Head(s) = "\n" THEN splitAcc(Tail(s), <<>>, Append(acc, cur))
    ELSE splitAcc(Tail(s), Append(cur, Head(s)), acc)

split(s) == splitAcc(s, <<>>, <<>>)

\* '\n'.join(lines)
RECURSIVE join(_)
join(lines) ==
    IF lines = <<>> THEN <<>>
    ELSE IF Len(lines) = 1 THEN lines[1]
    ELSE lines[1] \o <<"\n">> \o join(Tail(lines))

\* s.replace(old, new) for a one-token old
RECURSIVE replace(_, _, _)
replace(s, old, new) ==
    IF s = <<>> THEN <<>>
    ELSE (IF Head(s) = old THEN new ELSE <<Head(s)>>) \o replace(Tail(s), old, new)

----------------------------------------------------------------------------
(* DiagramGenerator._prepare_code *)

DiagramTok == <<"Diagram(">>
NameTok == <<"name=">>
FilenameTok == <<"file", "name=">>

\* f', filename="{output_filename}"'
FilenameArg(fn) == <<", ">> \o FilenameTok \o <<"\"", fn, "\"">>

\* f'Diagram(name="Architecture Diagram", filename="{output_filename}", '
NameAndFilename(fn) ==
    <<"Diagram(", "name=", "\"", "Architecture Diagram", "\"">>
        \o FilenameArg(fn) \o <<", ">>

\* lines 96-102 with the two branches in one: the suffix the line keeps
InjectFilenameNoColon(line, fn) ==
    LET m == rstrip(line) IN
    IF endswith(m, <<")", ":">>)
      THEN SubSeq(m, 1, Len(m) - 2) \o FilenameArg(fn) \o <<")">>
    ELSE IF endswith(m, <<")">>)
      THEN SubSeq(m, 1, Len(m) - 1) \o FilenameArg(fn) \o <<")">>
    ELSE m

\* lines 98-102: line has 'name=' and no 'filename='
InjectFilename(line, fn) ==
    LET m == rstrip(line) IN
    IF endswith(m, <<")", ":">>)
      THEN SubSeq(m, 1, Len(m) - 2) \o FilenameArg(fn) \o <<")", ":">>
    ELSE IF endswith(m, <<")">>)
      THEN SubSeq(m, 1, Len(m) - 1) \o FilenameArg(fn) \o <<")">>
    ELSE m

\* lines 93-110 without the test for an existing filename= argument
PatchLineAlwaysInject(line, fn) ==
    IF Contains(NameTok, line)
      THEN InjectFilename(line, fn)
      ELSE replace(line, "Diagram(", NameAndFilename(fn))

\* lines 93-110: the line the first match becomes
PatchLine(line, fn) ==
    IF Contains(NameTok, line)
      THEN IF ~Contains(FilenameTok, line) THEN InjectFilename(line, fn) ELSE line
      ELSE replace(line, "Diagram(", NameAndFilename(fn))

\* lines 89-113 without the diagram_found flag: every match is patched
RECURSIVE PrepareLinesNoFlag(_, _, _)
PrepareLinesNoFlag(lines, diagram_found, fn) ==
    IF lines = <<>> THEN <<>>
    ELSE IF Contains(DiagramTok, Head(lines))
      THEN <<PatchLine(Head(lines), fn)>> \o PrepareLinesNoFlag(Tail(lines), TRUE, fn)
      ELSE <<Head(lines)>> \o PrepareLinesNoFlag(Tail(lines), diagram_found, fn)

\* lines 89-113: the loop, with its diagram_found flag
RECURSIVE PrepareLines(_, _, _)
PrepareLines(lines, diagram_found, fn) ==
    IF lines = <<>> THEN <<>>
    ELSE IF Contains(DiagramTok, Head(lines)) /\ ~diagram_found
      THEN <<PatchLine(Head(lines), fn)>> \o PrepareLines(Tail(lines), TRUE, fn)
      ELSE <<Head(lines)>> \o PrepareLines(Tail(lines), diagram_found, fn)

\* lines 77-115
_prepare_code(code, fn) ==
    join(PrepareLines(split(strip(code)), FALSE, fn))

----------------------------------------------------------------------------
(* Inputs *)

\* output_filename arguments, also the base names of *.png files on disk
OutNames == {"diag1", "old"}

LKwColon == <<"with ", "Diagram(", "name=", "\"", "X", "\"", ")", ":">>
LKwParen == <<"d = ", "Diagram(", "name=", "\"", "X", "\"", ")">>
LPosColon == <<"with ", "Diagram(", "\"", "My App", "\"", ")", ":">>
LKwFile ==
    <<"with ", "Diagram(", "name=", "\"", "X", "\"", ", ",
      "file", "name=", "\"", "old", "\"", ")", ":">>
LPosFile ==
    <<"with ", "Diagram(", "\"", "X", "\"", ", ",
      "file", "name=", "\"", "old", "\"", ")">>
LEmptyCall == <<"with ", "Diagram(", ")", ":">>
LComment == <<"# ", "Diagram(", "name=", "\"", "X", "\"", ")">>
LTrailSp == LKwColon \o <<" ">>
LTrailCmt == LKwColon \o <<" ", "# c">>
LOpen == <<"with ", "Diagram(">>
LTwo == <<"a = ", "Diagram(", ")", "; b = ", "Diagram(", ")">>
LFileOnly == <<"with ", "Diagram(", "file", "name=", "\"", "old", "\"", ")", ":">>
LPlain == <<"x = 1">>
LIndent == <<" ", "Node()">>
LBlank == <<>>

\* the lines input texts are made of
Lines ==
    {LKwColon, LKwParen, LPosColon, LKwFile, LPosFile, LEmptyCall, LComment,
     LTrailSp, LTrailCmt, LOpen, LTwo, LFileOnly, LPlain, LIndent, LBlank}

LineSeqs == UNION {[1..n -> Lines] : n \in 1..MaxLines}

\* input texts: lines joined by newlines, with optional surrounding whitespace
Codes ==
    {lead \o join(ls) \o trail :
        lead \in {<<>>, <<"\n">>, <<" ">>}, ls \in LineSeqs,
        trail \in {<<>>, <<"\n">>}}

\* the scripts the executor is run on
ExecCodes == {join(<<LPlain, LKwColon>>) \o <<"\n">>, LPosColon, LKwFile}

\* captured output texts of a child
OutTexts == {<<>>, <<"rendered">>}
ErrTexts == {<<>>, <<"Traceback">>}
ReturnCodes == {0, 1}

----------------------------------------------------------------------------
(* Values *)

None == <<>>

NoExc == [type |-> "", desc |-> ""]
Exc(type, desc) == [type |-> type, desc |-> desc]

\* classes caught by `except Exception`
ExceptionClasses == {"OSError", "FileNotFoundError", "PermissionError", "TimeoutExpired"}

\* the tuple (success, output_path, error_message) given to the caller
Returned(success, output_path, error_message) ==
    [raised |-> FALSE, success |-> success, output_path |-> output_path,
     error_message |-> error_message]

\* an exception leaving generate_diagram
Raised(e) ==
    [raised |-> TRUE, success |-> FALSE, output_path |-> None,
     error_message |-> <<e.desc>>]

NoResult == Returned(FALSE, None, None)

\* the widgets of main(): API key, description, and a click on the button
NoInput == [key |-> <<>>, description |-> <<>>, clicked |-> FALSE]

\* self.output_dir / f"{output_filename}.png"
OutputPath(fn) == <<"outputs", "/", fn, ".png">>

----------------------------------------------------------------------------
(* DiagramGenerator.generate_diagram *)

TimeoutMsg == <<"Diagram generation timed out (30s limit)">>
NotCreatedMsg == <<"Diagram file was not created">>

\* the handler without its `except subprocess.TimeoutExpired` clause
HandlerGenericOnly(e) ==
    IF e.type \in ExceptionClasses
      THEN Returned(FALSE, None, <<"Error generating diagram: ", e.desc>>)
    ELSE Raised(e)

\* the handler without its `except Exception` clause
HandlerTimeoutOnly(e) ==
    IF e.type = "TimeoutExpired" THEN Returned(FALSE, None, TimeoutMsg)
    ELSE Raised(e)

\* lines 72-75: the two except clauses
Handler(e) ==
    IF e.type = "TimeoutExpired" THEN Returned(FALSE, None, TimeoutMsg)
    ELSE IF e.type \in ExceptionClasses
      THEN Returned(FALSE, None, <<"Error generating diagram: ", e.desc>>)
    ELSE Raised(e)

\* lines 61-70: the decision on (exit code, artifact on disk)
Decision(rc, out, err, fn, onDisk) ==
    IF rc = 0
      THEN IF fn \in onDisk
             THEN Returned(TRUE, OutputPath(fn), None)
             ELSE Returned(FALSE, None, NotCreatedMsg)
      ELSE Returned(FALSE, None,
                    <<"Execution error: ">> \o (IF err # <<>> THEN err ELSE out))

\* the caller invokes generate_diagram(code, fn)
Call(code, fn) ==
    /\ pc \in {"idle", "done", "cleared", "clear_raised"}
    /\ calls < MaxCalls
    /\ pc' = "mktemp"
    /\ diagram_code' = code
    /\ output_filename' = fn
    /\ modified_code' = <<>>
    /\ temp_file_path' = 0
    /\ child' = "none"
    /\ launched' = 0
    /\ returncode' = 0
    /\ stdout' = <<>>
    /\ stderr' = <<>>
    /\ exc' = NoExc
    /\ unlinked' = FALSE
    /\ checked' = FALSE
    /\ result' = NoResult
    /\ calls' = calls + 1
    /\ UNCHANGED <<temps, pngs>>
    /\ UNCHANGED <<locked, origin, badRuns, otherVars, uiVars>>

\* lines 38-43: NamedTemporaryFile(delete=False, dir=output_dir) creates a
\* file under a name no earlier file had (here: the number of the call)
MkTemp ==
    /\ pc = "mktemp"
    /\ \/ /\ temp_file_path' = calls
          /\ temps' = temps \cup {calls}
          /\ pc' = "write"
          /\ exc' = exc
       \/ /\ exc' = Exc("OSError", "cannot create temporary file")
          /\ pc' = "except"
          /\ UNCHANGED <<temp_file_path, temps>>
    /\ UNCHANGED <<diagram_code, output_filename, modified_code, pngs, child,
                   launched, returncode, stdout, stderr, unlinked, checked,
                   result, calls>>
    /\ UNCHANGED <<locked, origin, badRuns, otherVars, uiVars>>

\* lines 45-47: patch the code and write it; the with block closes the file,
\* which stays on disk (delete=False) also when the write raises
WriteTemp ==
    /\ pc = "write"
    /\ modified_code' = _prepare_code(diagram_code, output_filename)
    /\ \/ pc' = "launch" /\ exc' = exc
       \/ pc' = "except" /\ exc' = Exc("OSError", "cannot write temporary file")
    /\ UNCHANGED <<diagram_code, output_filename, temp_file_path, temps, pngs,
                   child, launched, returncode, stdout, stderr, unlinked,
                   checked, result, calls>>
    /\ UNCHANGED <<locked, origin, badRuns, otherVars, uiVars>>

\* lines 50-56: subprocess.run starts the child, or fails to
Launch ==
    /\ pc = "launch"
    /\ \/ /\ child' = "running"
          /\ launched' = launched + 1
          /\ pc' = "wait"
          /\ exc' = exc
       \/ /\ exc' = Exc("FileNotFoundError", "runtime not found")
          /\ pc' = "except"
          /\ UNCHANGED <<child, launched>>
    /\ UNCHANGED <<diagram_code, output_filename, modified_code, temp_file_path,
                   temps, pngs, returncode, stdout, stderr, unlinked, checked,
                   result, calls>>
    /\ UNCHANGED <<locked, origin, badRuns, otherVars, uiVars>>

\* the running script renders f.png into its working directory, output_dir
\* (a file the run has not written yet, or one it overwrites)
ChildWritePng(f) ==
    /\ pc = "wait" /\ child = "running"
    /\ f \notin pngs \/ origin[f] # calls
    /\ pngs' = pngs \cup {f}
    /\ UNCHANGED <<pc, diagram_code, output_filename, modified_code,
                   temp_file_path, temps, child, launched, returncode, stdout,
                   stderr, exc, unlinked, checked, result, calls>>
    /\ origin' = [origin EXCEPT ![f] = calls]
    /\ UNCHANGED <<locked, badRuns, otherVars, uiVars>>

\* the running script removes its own source file
ChildDeleteTemp ==
    /\ pc = "wait" /\ child = "running"
    /\ temp_file_path \in temps
    /\ temps' = temps \ {temp_file_path}
    /\ UNCHANGED <<pc, diagram_code, output_filename, modified_code,
                   temp_file_path, pngs, child, launched, returncode, stdout,
                   stderr, exc, unlinked, checked, result, calls>>
    /\ UNCHANGED <<locked, origin, badRuns, otherVars, uiVars>>

\* lines 50-56: the child exits within the timeout; subprocess.run returns
ChildExit(rc, out, err) ==
    /\ pc = "wait" /\ child = "running"
    /\ child' = "exited"
    /\ returncode' = rc
    /\ stdout' = out
    /\ stderr' = err
    /\ pc' = "unlink"
    /\ UNCHANGED <<diagram_code, output_filename, modified_code, temp_file_path,
                   temps, pngs, launched, exc, unlinked, checked, result, calls>>
    /\ badRuns' = IF rc # 0 THEN badRuns \cup {calls} ELSE badRuns
    /\ UNCHANGED <<locked, origin, otherVars, uiVars>>

\* a run that starts the script again after a timeout
RunTimeoutRetry ==
    /\ pc = "wait" /\ child = "running"
    /\ child' = "killed"
    /\ pc' = "launch"
    /\ UNCHANGED <<diagram_code, output_filename, modified_code, temp_file_path,
                   temps, pngs, launched, returncode, stdout, stderr, exc,
                   unlinked, checked, result, calls>>
    /\ badRuns' = badRuns \cup {calls}
    /\ UNCHANGED <<locked, origin, otherVars, uiVars>>

\* lines 50-56: timeout=30 expires; subprocess.run kills the child, waits for
\* it and raises TimeoutExpired
RunTimeout ==
    /\ pc = "wait" /\ child = "running"
    /\ child' = "killed"
    /\ exc' = Exc("TimeoutExpired", "timed out after 30 seconds")
    /\ pc' = "except"
    /\ UNCHANGED <<diagram_code, output_filename, modified_code, temp_file_path,
                   temps, pngs, launched, returncode, stdout, stderr, unlinked,
                   checked, result, calls>>
    /\ badRuns' = badRuns \cup {calls}
    /\ UNCHANGED <<locked, origin, otherVars, uiVars>>

\* line 59: os.unlink(temp_file_path)
Unlink ==
    /\ pc = "unlink"
    /\ \/ /\ temp_file_path \in temps
          /\ temps' = temps \ {temp_file_path}
          /\ unlinked' = TRUE
          /\ pc' = "decide"
          /\ exc' = exc
       \/ /\ temp_file_path \in temps
          /\ exc' = Exc("PermissionError", "cannot delete temporary file")
          /\ pc' = "except"
          /\ UNCHANGED <<temps, unlinked>>
       \/ /\ temp_file_path \notin temps
          /\ exc' = Exc("FileNotFoundError", "no such temporary file")
          /\ pc' = "except"
          /\ UNCHANGED <<temps, unlinked>>
    /\ UNCHANGED <<diagram_code, output_filename, modified_code, temp_file_path,
                   pngs, child, launched, returncode, stdout, stderr, checked,
                   result, calls>>
    /\ UNCHANGED <<locked, origin, badRuns, otherVars, uiVars>>

\* lines 61-70: return on the exit code and output_path.exists(); the stat()
\* under exists() may raise (PermissionError is not swallowed by pathlib)
Decide ==
    /\ pc = "decide"
    /\ \/ /\ result' = Decision(returncode, stdout, stderr, output_filename, pngs)
          /\ checked' = (returncode = 0)
          /\ pc' = "done"
          /\ exc' = exc
       \/ /\ returncode = 0
          /\ exc' = Exc("PermissionError", "cannot stat output file")
          /\ pc' = "except"
          /\ UNCHANGED <<result, checked>>
    /\ UNCHANGED <<diagram_code, output_filename, modified_code, temp_file_path,
                   temps, pngs, child, launched, returncode, stdout, stderr,
                   unlinked, calls>>
    /\ UNCHANGED <<locked, origin, badRuns, otherVars, uiVars>>

\* lines 72-75: the except clauses turn the exception into the result
Except ==
    /\ pc = "except"
    /\ result' = Handler(exc)
    /\ pc' = "done"
    /\ UNCHANGED <<diagram_code, output_filename, modified_code, temp_file_path,
                   temps, pngs, child, launched, returncode, stdout, stderr, exc,
                   unlinked, checked, calls>>
    /\ UNCHANGED <<locked, origin, badRuns, otherVars, uiVars>>

----------------------------------------------------------------------------
(* The artifact store: list_generated_diagrams and clear_outputs *)

\* lines 117-122: the *.png files of output_dir
list_generated_diagrams == pngs

\* the orders in which glob("*.png") may yield the files
GlobOrders(files) ==
    {o \in [1..Cardinality(files) -> files] :
        \A i, j \in 1..Cardinality(files) : o[i] = o[j] => i = j}

\* lines 126-127: the loop; file.unlink() raises on a file that cannot be
\* deleted, and nothing in clear_outputs catches it
RECURSIVE ClearLoop(_, _, _)
ClearLoop(order, onDisk, undeletable) ==
    IF order = <<>> THEN [pngs |-> onDisk, raised |-> FALSE]
    ELSE IF Head(order) \in undeletable THEN [pngs |-> onDisk, raised |-> TRUE]
    ELSE ClearLoop(Tail(order), onDisk \ {Head(order)}, undeletable)

\* lines 124-127 (and nano_banana_generator.py lines 154-157, the same code)
clear_outputs ==
    /\ pc \in {"idle", "done", "cleared", "clear_raised"}
    /\ \E order \in GlobOrders(pngs) :
          LET r == ClearLoop(order, pngs, locked) IN
          /\ pngs' = r.pngs
          /\ origin' = [f \in OutNames |-> IF f \in r.pngs THEN origin[f] ELSE 0]
          /\ pc' = IF r.raised THEN "clear_raised" ELSE "cleared"
    /\ UNCHANGED <<diagram_code, output_filename, modified_code, temp_file_path,
                   temps, child, launched, returncode, stdout, stderr, exc,
                   unlinked, checked, result, calls>>
    /\ UNCHANGED <<locked, badRuns, otherVars, uiVars>>

\* lines 16-19: output_dir exists (mkdir(exist_ok=True)) and may hold the
\* images of earlier runs
Init ==
    /\ pc = "idle"
    /\ diagram_code = <<>>
    /\ output_filename = ""
    /\ modified_code = <<>>
    /\ temp_file_path = 0
    /\ temps = {}
    /\ pngs \in SUBSET OutNames
    /\ child = "none"
    /\ launched = 0
    /\ returncode = 0
    /\ stdout = <<>>
    /\ stderr = <<>>
    /\ exc = NoExc
    /\ unlinked = FALSE
    /\ checked = FALSE
    /\ result = NoResult
    /\ calls = 0
    /\ locked \in SUBSET OutNames
    /\ origin = [f \in OutNames |-> 0]
    /\ badRuns = {}
    /\ other_pc = "none"
    /\ other_fn = ""
    /\ other_temp = 0
    /\ other_result = NoResult
    /\ api_key_verified = FALSE
    /\ generated_diagram = 0
    /\ diagram_response = 0
    /\ ui_runs = 0
    /\ ui_input = NoInput
    /\ ui_llm_calls = 0
    /\ ui_gen_calls = 0
    /\ ui_outcome = "none"

Next ==
    \/ \E code \in ExecCodes, fn \in OutNames : Call(code, fn)
    \/ MkTemp
    \/ WriteTemp
    \/ Launch
    \/ \E f \in OutNames : ChildWritePng(f)
    \/ ChildDeleteTemp
    \/ \E rc \in ReturnCodes, out \in OutTexts, err \in ErrTexts :
          ChildExit(rc, out, err)
    \/ RunTimeout
    \/ Unlink
    \/ Decide
    \/ Except
    \/ clear_outputs

Spec == Init /\ [][Next]_vars

----------------------------------------------------------------------------
(* A second call of generate_diagram on the same output directory that     *)
(* overlaps the first (another session or thread), followed along its      *)
(* fault-free path: temp file, child, exit code 0, unlink, decision.       *)

\* the run number of the second call, also the name of its temp file
\* (NamedTemporaryFile never gives the name of an existing file)
OtherRun == MaxCalls + 1

\* lines 21-56: entry, temp file created and written, child started
OtherStart(fn) ==
    /\ other_pc = "none"
    /\ other_pc' = "wait"
    /\ other_fn' = fn
    /\ other_temp' = OtherRun
    /\ temps' = temps \cup {OtherRun}
    /\ UNCHANGED <<pc, diagram_code, output_filename, modified_code,
                   temp_file_path, pngs, child, launched, returncode, stdout,
                   stderr, exc, unlinked, checked, result, calls>>
    /\ UNCHANGED <<locked, origin, badRuns, other_result, uiVars>>

\* its script renders {other_fn}.png into output_dir
OtherChildWritePng ==
    /\ other_pc = "wait"
    /\ other_fn \notin pngs \/ origin[other_fn] # OtherRun
    /\ pngs' = pngs \cup {other_fn}
    /\ origin' = [origin EXCEPT ![other_fn] = OtherRun]
    /\ UNCHANGED <<pc, diagram_code, output_filename, modified_code,
                   temp_file_path, temps, child, launched, returncode, stdout,
                   stderr, exc, unlinked, checked, result, calls>>
    /\ UNCHANGED <<locked, badRuns, otherVars, uiVars>>

\* lines 50-67: its child exits with code 0, its temp file is unlinked and
\* the decision is taken on output_dir/{other_fn}.png
OtherFinish ==
    /\ other_pc = "wait"
    /\ other_pc' = "done"
    /\ temps' = temps \ {other_temp}
    /\ other_result' = Decision(0, <<>>, <<>>, other_fn, pngs)
    /\ UNCHANGED <<pc, diagram_code, output_filename, modified_code,
                   temp_file_path, pngs, child, launched, returncode, stdout,
                   stderr, exc, unlinked, checked, result, calls>>
    /\ UNCHANGED <<locked, origin, badRuns, other_fn, other_temp, uiVars>>

\* an empty output directory nothing is locked in
ConcInit == Init /\ pngs = {} /\ locked = {}

ConcNext ==
    \/ \E code \in ExecCodes, fn \in OutNames : Call(code, fn)
    \/ MkTemp
    \/ WriteTemp
    \/ Launch
    \/ \E f \in OutNames : ChildWritePng(f)
    \/ ChildDeleteTemp
    \/ \E rc \in ReturnCodes, out \in OutTexts, err \in ErrTexts :
          ChildExit(rc, out, err)
    \/ RunTimeout
    \/ Unlink
    \/ Decide
    \/ Except
    \/ \E fn \in OutNames : OtherStart(fn)
    \/ OtherChildWritePng
    \/ OtherFinish

SpecConc == ConcInit /\ [][ConcNext]_vars

----------------------------------------------------------------------------
(* The Streamlit page (app.py): one run of main() per user interaction.    *)
(* The session keeps api_key_verified, generated_diagram and               *)
(* diagram_response between runs; the last two hold 0 for None or the      *)
(* number of the run that stored them.                                     *)

Placeholder == <<"your_google_api_key_here">>

Keys == {<<>>, <<" ">>, Placeholder, <<"k1">>}

Descriptions == {<<>>, <<" ">>, <<"web", " ", "app">>}

\* lines 95-97
verify_api_key(api_key) ==
    /\ api_key # <<>>
    /\ strip(api_key) # <<>>
    /\ api_key # Placeholder

\* a button that reports a click although it is disabled
ButtonIgnoresDisabled(clicked, disabled) == clicked

\* lines 217-222: st.button returns True only for a click on an enabled button
Button(clicked, disabled) == clicked /\ ~disabled

\* an agent class that also has the method the page calls
AgentMethodsWithCodeGen ==
    {"generate_image_prompt", "_build_prompt", "_parse_response",
     "generate_diagram_code"}

\* architecture_agent.py lines 26-127: the methods of ArchitectureAgent
AgentMethods == {"generate_image_prompt", "_build_prompt", "_parse_response"}

\* architecture_agent.py lines 18-23: the fields of DiagramResponse
ResponseFields == {"image_prompt", "description", "components", "best_practices"}

\* lines 246-266: create_architecture_agent may raise; the statement of line
\* 258 raises AttributeError when the agent has no generate_diagram_code,
\* otherwise the model call returns a response or raises
LlmStage ==
    {"agent_error"} \cup
    (IF "generate_diagram_code" \in AgentMethods
        THEN {"response", "llm_upstream_error"}
        ELSE {"llm_attribute_error"})

\* lines 268-287: DiagramGenerator(...) may raise (mkdir); reading
\* response.diagram_code raises AttributeError when the response has no such
\* field, otherwise generate_diagram is called and returns Success or Failure
ExecStage ==
    {"exec_init_error"} \cup
    (IF "diagram_code" \in ResponseFields
        THEN {"success", "exec_failure"}
        ELSE {"exec_attribute_error"})

\* lines 243-287: what the handler of the generate button leaves behind in
\* run number run of a session holding gd and dr
Generate(run, gd, dr) ==
    {[outcome |-> o,
      llm_calls |-> IF o = "agent_error" THEN 0 ELSE 1,
      gen_calls |-> 0,
      generated_diagram |-> gd,
      diagram_response |-> dr] : o \in LlmStage \ {"response"}}
    \cup
    (IF "response" \in LlmStage
        THEN {[outcome |-> e,
               llm_calls |-> 1,
               gen_calls |-> IF e \in {"success", "exec_failure"} THEN 1 ELSE 0,
               generated_diagram |-> IF e = "success" THEN run ELSE gd,
               diagram_response |-> run] : e \in ExecStage}
        ELSE {})

\* lines 100-316: one run of main() with the key and the description in the
\* widgets and a click (or none) on the generate button
UiRun(key, description, clicked) ==
    /\ ui_runs < MaxRuns
    /\ ui_runs' = ui_runs + 1
    /\ ui_input' = [key |-> key, description |-> description, clicked |-> clicked]
    /\ api_key_verified' = verify_api_key(key)
    /\ \E r \in
          IF ~verify_api_key(key)
             THEN {[outcome |-> "key_stop", llm_calls |-> 0, gen_calls |-> 0,
                    generated_diagram |-> generated_diagram,
                    diagram_response |-> diagram_response]}
          ELSE
             \* lines 224-231: open(...).read() of a stored artifact may raise
             (IF generated_diagram # 0
                 THEN {[outcome |-> "download_error", llm_calls |-> 0,
                        gen_calls |-> 0,
                        generated_diagram |-> generated_diagram,
                        diagram_response |-> diagram_response]}
                 ELSE {})
             \cup
             (IF Button(clicked, description = <<>> \/ ~verify_api_key(key))
                 THEN Generate(ui_runs + 1, generated_diagram, diagram_response)
                 ELSE {[outcome |-> "no_click", llm_calls |-> 0, gen_calls |-> 0,
                        generated_diagram |-> generated_diagram,
                        diagram_response |-> diagram_response]}) :
          /\ ui_outcome' = r.outcome
          /\ ui_llm_calls' = r.llm_calls
          /\ ui_gen_calls' = r.gen_calls
          /\ generated_diagram' = r.generated_diagram
          /\ diagram_response' = r.diagram_response
    /\ UNCHANGED <<genVars, locked, origin, badRuns, otherVars>>

\* the script of one response and the file name the page passes (line 274)
AppCodes == {LKwColon}

AppNames == {"diag1"}

AppInit == Init /\ pngs = {} /\ locked = {}

AppNext ==
    \/ \E key \in Keys, description \in Descriptions, clicked \in BOOLEAN :
          UiRun(key, description, clicked)
    \/ \E code \in AppCodes, fn \in AppNames : Call(code, fn)
    \/ MkTemp
    \/ WriteTemp
    \/ Launch
    \/ \E f \in AppNames : ChildWritePng(f)
    \/ ChildDeleteTemp
    \/ \E rc \in ReturnCodes, out \in OutTexts, err \in ErrTexts :
          ChildExit(rc, out, err)
    \/ RunTimeout
    \/ Unlink
    \/ Decide
    \/ Except

SpecApp == AppInit /\ [][AppNext]_vars

----------------------------------------------------------------------------
(* The patcher alone, on every input text *)

PatchInit ==
    /\ pc = "input"
    /\ diagram_code \in Codes
    /\ output_filename \in OutNames
    /\ modified_code = <<>>
    /\ temp_file_path = 0
    /\ temps = {}
    /\ pngs = {}
    /\ child = "none"
    /\ launched = 0
    /\ returncode = 0
    /\ stdout = <<>>
    /\ stderr = <<>>
    /\ exc = NoExc
    /\ unlinked = FALSE
    /\ checked = FALSE
    /\ result = NoResult
    /\ calls = 0
    /\ locked = {}
    /\ origin = [f \in OutNames |-> 0]
    /\ badRuns = {}
    /\ other_pc = "none"
    /\ other_fn = ""
    /\ other_temp = 0
    /\ other_result = NoResult
    /\ api_key_verified = FALSE
    /\ generated_diagram = 0
    /\ diagram_response = 0
    /\ ui_runs = 0
    /\ ui_input = NoInput
    /\ ui_llm_calls = 0
    /\ ui_gen_calls = 0
    /\ ui_outcome = "none"

\* line 45: modified_code = self._prepare_code(diagram_code, output_filename)
Patch ==
    /\ pc = "input"
    /\ modified_code' = _prepare_code(diagram_code, output_filename)
    /\ pc' = "patched"
    /\ UNCHANGED <<diagram_code, output_filename, temp_file_path, temps, pngs,
                   child, launched, returncode, stdout, stderr, exc, unlinked,
                   checked, result, calls>>
    /\ UNCHANGED <<locked, origin, badRuns, otherVars, uiVars>>

PatchNext == Patch

SpecPatch == PatchInit /\ [][PatchNext]_vars

----------------------------------------------------------------------------
(* Properties of generate_diagram *)

\* the call has returned to its caller (or raised)
Done == pc = "done"

\* the child of the finished call ran to an exit code
Exited == child = "exited"

\* the existence check itself raised: it decided nothing about the file
StatFault == exc = Exc("PermissionError", "cannot stat output file")

\* C1: generate_diagram returns Success, with the path
\* {outputDir}/{outputFilename}.png, if and only if the child exited with
\* code zero and that file is on disk; exit code zero with the file absent
\* returns Failure("Diagram file was not created"); a non-zero exit is
\* never Success.
C1_SuccessIffExitZeroAndArtifact ==
    (Done /\ ~StatFault) =>
      /\ result.success <=>
            (Exited /\ returncode = 0 /\ output_filename \in pngs)
      /\ result.success => result.output_path = OutputPath(output_filename)
      /\ (Exited /\ returncode = 0 /\ output_filename \notin pngs)
            => result = Returned(FALSE, None, NotCreatedMsg)
      /\ (Exited /\ returncode # 0) => ~result.success

\* C2: after any invocation of generate_diagram, whatever its outcome, the
\* temporary source file it created is no longer in outputDir.
C2_TempFileGone == Done => temp_file_path \notin temps

\* C3: when the child does not exit within the timeout, generate_diagram
\* returns Failure("Diagram generation timed out (30s limit)"), and when it
\* returns the child has been terminated and is not running.
C3_TimeoutFailureAndChildKilled ==
    /\ Done => child # "running"
    /\ (Done /\ exc.type = "TimeoutExpired")
          => (result = Returned(FALSE, None, TimeoutMsg) /\ child = "killed")

C3_Witness ==
    /\ Done /\ exc.type = "TimeoutExpired" /\ child = "killed"
    /\ result.error_message = TimeoutMsg

\* C4: generate_diagram never raises past its boundary: after a fault on any
\* step (temp-file creation or write, child launch, timeout, temp-file
\* deletion, existence check) it returns a Failure that carries the
\* description of the fault.
C4_NeverRaises ==
    Done =>
      /\ ~result.raised
      /\ exc # NoExc =>
            /\ ~result.success
            /\ result.output_path = None
            /\ \/ exc.type = "TimeoutExpired" /\ result.error_message = TimeoutMsg
               \/ Contains(<<exc.desc>>, result.error_message)

C4_Witness ==
    /\ Done /\ exc.type = "FileNotFoundError" /\ child = "none"
    /\ result = Returned(FALSE, None,
                         <<"Error generating diagram: ", "runtime not found">>)

\* C5: when the child exits with a non-zero code, generate_diagram returns
\* Failure whose message is the captured standard-error text if that text is
\* non-empty, and otherwise the captured standard-output text.
C5_NonZeroExitMessage ==
    (Done /\ Exited /\ returncode # 0)
      => result = Returned(FALSE, None, IF stderr # <<>> THEN stderr ELSE stdout)

----------------------------------------------------------------------------
(* Properties of _prepare_code *)

Patched == pc = "patched"

\* index of the first line holding the constructor token, 0 when there is none
FirstMatch(lines) ==
    IF \E i \in 1..Len(lines) : Contains(DiagramTok, lines[i])
      THEN CHOOSE i \in 1..Len(lines) :
             /\ Contains(DiagramTok, lines[i])
             /\ \A j \in 1..(i - 1) : ~Contains(DiagramTok, lines[j])
      ELSE 0

\* the lines of the input as given, of the input stripped, and of the output
RawLines == split(diagram_code)
InLines == split(strip(diagram_code))
OutLines == split(modified_code)

\* position of the first token t in line, 0 when there is none
IndexOf(t, line) ==
    IF \E i \in 1..Len(line) : line[i] = t
      THEN CHOOSE i \in 1..Len(line) :
             line[i] = t /\ \A j \in 1..(i - 1) : line[j] # t
      ELSE 0

\* position of the parenthesis closing the first constructor call of a line
\* (the lines of the model nest no parentheses), 0 when the line has none
CloseOf(line) ==
    LET i == IndexOf("Diagram(", line) IN
    IF i # 0 /\ \E j \in (i + 1)..Len(line) : line[j] = ")"
      THEN CHOOSE j \in (i + 1)..Len(line) :
             line[j] = ")" /\ \A k \in (i + 1)..(j - 1) : line[k] # ")"
      ELSE 0

\* the call names its diagram: name= keyword, or a leading string literal
HasName(line) ==
    LET i == IndexOf("Diagram(", line) IN
    \/ Contains(NameTok, line)
    \/ i # 0 /\ i < Len(line) /\ line[i + 1] = "\""

\* the line with , filename="fn" put right before the closing parenthesis
InsertBeforeClose(line, fn) ==
    LET j == CloseOf(line) IN
    SubSeq(line, 1, j - 1) \o FilenameArg(fn) \o SubSeq(line, j, Len(line))

\* the line passes filename="fn" to the constructor
WritesTo(line, fn) == Contains(FilenameTok \o <<"\"", fn, "\"">>, line)

\* C6: for every input code and outputFilename, whenever the code contains a
\* diagram-constructor call, the first such call in the patched code writes to
\* outputFilename (the {outputFilename}.png that generate_diagram checks for).
C6_PatchedCallWritesToOutput ==
    (Patched /\ FirstMatch(OutLines) # 0)
      => WritesTo(OutLines[FirstMatch(OutLines)], output_filename)

\* C7: if the first diagram-constructor call of the input already has a
\* filename argument, the output of _prepare_code equals the input code.
C7_ExplicitFilenameOutputEqualsInput ==
    (Patched /\ FirstMatch(RawLines) # 0
       /\ Contains(FilenameTok, RawLines[FirstMatch(RawLines)]))
      => modified_code = diagram_code

\* C7 (amended): if the first line holding the constructor token already
\* holds filename=, the output of _prepare_code equals the input code with its
\* leading and trailing whitespace stripped.
C7_ExplicitFilenameOutputEqualsStripped ==
    (Patched /\ FirstMatch(RawLines) # 0
       /\ Contains(FilenameTok, RawLines[FirstMatch(RawLines)]))
      => modified_code = strip(diagram_code)

C7_Witness ==
    /\ Patched /\ FirstMatch(RawLines) # 0
    /\ Contains(FilenameTok, RawLines[FirstMatch(RawLines)])
    /\ output_filename # "old"
    /\ modified_code = strip(diagram_code)
    /\ modified_code # diagram_code

\* C8: when the first constructor line has a name (keyword or positional)
\* and no filename argument, _prepare_code yields that line with only
\* , filename="<outputFilename>" inserted right before the call's closing
\* parenthesis, everything else on the line unchanged.
C8_FilenameInsertedBeforeClose ==
    LET k == FirstMatch(InLines) IN
    (Patched /\ k # 0 /\ HasName(InLines[k])
       /\ ~Contains(FilenameTok, InLines[k]) /\ CloseOf(InLines[k]) # 0)
      => OutLines[k] = InsertBeforeClose(InLines[k], output_filename)

\* C9: _prepare_code changes at most one line of the input: only the first
\* line holding the token Diagram( may differ, every other line is passed
\* through verbatim and in order, and with no such line the code is returned
\* unmodified.
C9_AtMostFirstMatchChanges ==
    Patched =>
      LET k == FirstMatch(RawLines) IN
      /\ Len(OutLines) = Len(RawLines)
      /\ \A i \in 1..Len(RawLines) :
            (i # k /\ i <= Len(OutLines)) => OutLines[i] = RawLines[i]
      /\ k = 0 => modified_code = diagram_code

\* C9 (amended): the same, of the input with its leading and trailing
\* whitespace stripped.
C9_AtMostFirstMatchChangesOfStripped ==
    Patched =>
      LET k == FirstMatch(InLines) IN
      /\ Len(OutLines) = Len(InLines)
      /\ \A i \in 1..Len(InLines) :
            (i # k /\ i <= Len(OutLines)) => OutLines[i] = InLines[i]
      /\ k = 0 => modified_code = strip(diagram_code)

C9_Witness ==
    /\ Patched
    /\ Len(InLines) = Len(OutLines)
    /\ \E i, j \in 1..Len(InLines) :
          /\ i < j
          /\ Contains(DiagramTok, InLines[i]) /\ OutLines[i] # InLines[i]
          /\ Contains(DiagramTok, InLines[j]) /\ OutLines[j] = InLines[j]
          /\ ~Contains(FilenameTok, InLines[j])

\* C10: form preservation: a constructor line ending in ) is patched into a
\* line ending in ), and one ending in ): into a line ending in ):, for the
\* filename-only and for the name-plus-filename injection.
C10_FormPreserved ==
    LET k == FirstMatch(InLines) IN
    (Patched /\ k # 0) =>
      /\ endswith(InLines[k], <<")">>) => endswith(OutLines[k], <<")">>)
      /\ endswith(InLines[k], <<")", ":">>) => endswith(OutLines[k], <<")", ":">>)

C10_Witness ==
    LET k == FirstMatch(InLines) IN
    /\ Patched /\ k # 0
    /\ Contains(NameTok, InLines[k])
    /\ endswith(InLines[k], <<")", ":">>)
    /\ OutLines[k] # InLines[k]
    /\ endswith(OutLines[k], FilenameArg(output_filename) \o <<")", ":">>)

----------------------------------------------------------------------------
(* Properties of the artifact store *)

\* clear_outputs has ended, by returning ("cleared") or by raising
Cleared == pc \in {"cleared", "clear_raised"}

\* C11: clear_outputs is total and continues on error: when deleting one
\* image fails the remaining ones are still deleted, so after clear_outputs
\* list_generated_diagrams holds no file that was deletable.
C11_ClearContinuesOnError ==
    Cleared => (pc = "cleared" /\ list_generated_diagrams \subseteq locked)

----------------------------------------------------------------------------
(* Properties of generate_diagram over deletion faults and repeated runs *)

\* C14: a failure to delete the temporary source file does not change the
\* result of generate_diagram: the value returned is the Success or Failure
\* that the (exit code, artifact existence) decision gives.
C14_DeleteFailureDoesNotMaskResult ==
    (Done /\ Exited /\ ~unlinked)
      => result = Decision(returncode, stdout, stderr, output_filename, pngs)

\* C15: over any sequence of generate_diagram calls on one output directory
\* and outputFilename, an image written by a run that timed out or exited
\* non-zero is never the artifact of a Success result, neither of that run nor
\* of a later run whose script exits zero without writing the file.
C15_NoStaleArtifactAsSuccess ==
    (Done /\ result.success) => origin[output_filename] \notin badRuns

----------------------------------------------------------------------------
(* Properties of overlapping calls *)

\* both calls are between their entry and their return
Overlap ==
    /\ pc \in {"mktemp", "write", "launch", "wait", "unlink", "decide", "except"}
    /\ other_pc = "wait"

\* C16: when two generation requests overlap in time they use distinct
\* temporary files and distinct artifact paths, so that neither request's
\* temporary file or artifact is overwritten or deleted by the other and a
\* Success result names an artifact written by the request's own child.
C16_OverlappingRequestsDoNotClobber ==
    /\ (Overlap /\ temp_file_path # 0) => temp_file_path # other_temp
    /\ (Done /\ result.success) => origin[output_filename] = calls
    /\ (other_pc = "done" /\ other_result.success) => origin[other_fn] = OtherRun

----------------------------------------------------------------------------
(* Properties of the page's generate action *)

\* the last run's input was missing or invalid
InvalidInput ==
    ui_input.description = <<>> \/ ~verify_api_key(ui_input.key)

\* the last run's generate handler ended in its first except clause
LlmFailed ==
    ui_outcome \in {"agent_error", "llm_attribute_error", "llm_upstream_error"}

\* C12: for one generate action, neither the model call nor generate_diagram
\* happens when the description is empty or the API key is not verified, and
\* generate_diagram does not happen when the model call failed.
C12_ExecutorGuardedByEarlierStages ==
    ui_runs > 0 =>
        /\ InvalidInput => (ui_llm_calls = 0 /\ ui_gen_calls = 0)
        /\ LlmFailed => ui_gen_calls = 0

C12_Witness ==
    /\ ui_input.clicked
    /\ ui_input.description = <<>>
    /\ verify_api_key(ui_input.key)
    /\ ui_outcome = "no_click"
    /\ ui_llm_calls = 0

\* C13: one generate action makes at most one model call and at most one
\* generate_diagram call, and one generate_diagram call starts at most one
\* child process, whatever the outcome.
C13_NoRetries ==
    /\ ui_llm_calls <= 1
    /\ ui_gen_calls <= 1
    /\ launched <= 1

C13_Witness ==
    /\ Done
    /\ exc.type = "TimeoutExpired"
    /\ launched = 1
    /\ ui_outcome = "llm_attribute_error"
    /\ ui_llm_calls = 1

\* the last run was a click on the enabled button
Pressed ==
    /\ ui_runs > 0
    /\ ui_input.clicked
    /\ ui_input.description # <<>>
    /\ verify_api_key(ui_input.key)

\* C17: a generate action with valid input that met no failure of agent
\* creation or of the model call invokes generate_diagram with the response's
\* code, and on Success stores the artifact path in the session.
C17_ValidGenerateInvokesExecutor ==
    (Pressed /\ ui_outcome \notin {"agent_error", "llm_upstream_error"}) =>
        /\ ui_gen_calls = 1
        /\ ui_outcome = "success" => generated_diagram = ui_runs

====
